---- MODULE Spec2Model ----
(***************************************************************************)
(* Plant-Sim: a grid of plants made of typed cells.  PlantSim.update()     *)
(* advances one tick: every plant is updated in list order, every cell of  *)
(* a landed plant is updated in the order of the plant's cell map, expired *)
(* plants are reaped and the plants born from completed flowers are        *)
(* appended.                                                               *)
(*                                                                         *)
(* The configuration is scaled down (a 2 x 3 grid, lifespans of a few      *)
(* ticks, resources in whole units of flower_grow_rate) so that falling,   *)
(* landing, growth, seed production, death, decay and reaping all happen   *)
(* within the explored ticks.  Water and energy are fixed-point numbers    *)
(* with Precision fractional bits.  Probabilities are in hundredths.       *)
(*                                                                         *)
(* The Plant class is not among the sources: Plant.update, its landing,    *)
(* the application of the cells' records and clear_coords follow the       *)
(* design document.  The cells and the simulation loop follow the code.    *)
(***************************************************************************)
EXTENDS Integers, Sequences, FiniteSets, TLC

\* ------------------------------------------------------------------ bounds
grid_size_x == 2
grid_size_y == 3
GroundRow == 1            \* the ground mask: rows y >= GroundRow are ground
n_plants == 1
MaxTicks == 12            \* update() calls explored
Precision == 3            \* fractional bits of water and energy
Scale == 2 ^ Precision

plant_lifespan == 10
dead_cell_lifespan == 1

\* Seed.update reads Config.cell_lifespan, which config.py does not set.  It is
\* fixed when the program starts, to a lifespan the seed reaches while its
\* plant is young or to the plant's own lifespan, which the seed never reaches.
ShortLifespan == 4
CellLifespans == {ShortLifespan, plant_lifespan}
VARIABLE cell_lifespan

UnitsCreation == 1
UnitsSeed == 16
UnitsFlowerRate == 1
UnitsGain == 1
flower_growth_efficiency == 8
UnitsLoss == 1            \* the loss per tick, in steps of the fixed point

default_creation_cost == UnitsCreation * Scale
seed_creation_cost == UnitsSeed * Scale
cell_resource_capacity == UnitsSeed * Scale
flower_grow_rate == UnitsFlowerRate * Scale
leaf_energy_gain == UnitsGain * Scale
root_water_gain == UnitsGain * Scale
stem_energy_gain == (UnitsGain * Scale) \div 10
default_loss_per_tick == UnitsLoss

\* probabilities, in hundredths
POne == 100
base_growth_p == 1
distance_factor_scale == 5
n_factors == 5

\* ------------------------------------------------------------- cell types
CellTypes == {"SEED", "ROOT", "STEM", "LEAF", "FLOWER"}

\* The target types a source type grows, in the order of the genome's dict.
GrowableOrder(cell_type) ==
    CASE cell_type = "SEED" -> <<"STEM", "ROOT">>
      [] cell_type = "ROOT" -> <<"ROOT">>
      [] cell_type = "STEM" -> <<"STEM", "LEAF", "FLOWER">>
      [] OTHER -> <<>>

Range(s) == {s[i] : i \in DOMAIN s}

\* ------------------------------------------------------------ coordinates
coords_for_directions ==
    << <<1, 0>>, <<1, -1>>, <<0, -1>>, <<-1, -1>>,
       <<-1, 0>>, <<-1, 1>>, <<0, 1>>, <<1, 1>> >>

CoordAdd(a, b) == <<a[1] + b[1], a[2] + b[2]>>

\* class Coord: an object, known by its identity, with the int fields x and y.
Coord(id, x, y) == [id |-> id, x |-> x, y |-> y]

xy(c) == <<c.x, c.y>>

\* __add__ returns Coord(...): a new object, whose identity is id.
Coord_add(a, b, id) == Coord(id, a.x + b.x, a.y + b.y)

\* The comparison of object: the same object, whatever its fields.
Coord_is(a, b) == a.id = b.id

\* __eq__ compares the xy tuples.
Coord_eq(a, b) == xy(a) = xy(b)

\* hash() of a tuple of ints is a function of its elements into the machine
\* word, folded here into HashWidth bits; __hash__ is the hash of xy.
HashWidth == 3
tuple_hash(t) == (31 * t[1] + t[2]) % (2 ^ HashWidth)
Coord_hash(c) == tuple_hash(xy(c))

\* numpy indexing of the ground matrix: an index i of an axis of length n is
\* valid for -n <= i < n, a negative index counts from the end, and any other
\* index raises IndexError.
IndexValid(i, n) == i >= -n /\ i < n
IndexWrap(i, n) == IF i < 0 THEN i + n ELSE i
InMatrix(c) == IndexValid(c[1], grid_size_x) /\ IndexValid(c[2], grid_size_y)
ground_matrix(c) == IndexWrap(c[2], grid_size_y) >= GroundRow

\* ----------------------------------------------------------------- genome
ZeroFactors == [k \in 1..n_factors |-> 0]
init_zero == [growth_p |-> 0, factors |-> ZeroFactors]
\* np.random.uniform() * base_growth_p lies in [0, base_growth_p): in
\* hundredths every such draw truncates to 0.
init_random_genes == [growth_p |-> base_growth_p, factors |-> ZeroFactors]

ZeroGenes == [d \in 1..8 |-> init_zero]
RandomGenes == [d \in 1..8 |-> init_random_genes]

Genome_init_random ==
    [src \in CellTypes |->
        CASE src = "SEED" ->
               [tgt \in {"STEM", "ROOT"} |->
                  IF tgt = "STEM"
                  THEN [ZeroGenes EXCEPT ![3] = [@ EXCEPT !.growth_p = POne]]
                  ELSE [ZeroGenes EXCEPT ![7] = [@ EXCEPT !.growth_p = POne]]]
          [] src = "ROOT" ->
               [tgt \in {"ROOT"} |->
                  [d \in 1..8 |-> IF d \in {6, 7, 8} THEN init_random_genes ELSE init_zero]]
          [] src = "STEM" ->
               [tgt \in {"STEM", "LEAF", "FLOWER"} |->
                  IF tgt = "STEM"
                  THEN [d \in 1..8 |-> IF d \in {2, 3, 4} THEN init_random_genes ELSE init_zero]
                  ELSE RandomGenes]
          [] OTHER -> [tgt \in {} |-> ZeroGenes]]

\* expression_p of one gene: growth_p + (inputs . factors) * base_growth_p, with
\* inputs [age = 1, density = 1, distance * distance_factor_scale, water, energy].
ExpressionP(genes, distance, water, energy) ==
    LET f == genes.factors
        dot == f[1] * POne + f[2] * POne + f[3] * distance * distance_factor_scale
               + (f[4] * water * POne) \div cell_resource_capacity
               + (f[5] * energy * POne) \div cell_resource_capacity
    IN genes.growth_p + (dot * base_growth_p) \div (POne * POne)

\* random() <= expression_p: a draw of 0 expresses a gene of probability 0.
TestExpressionInclusive(genes, distance, water, energy) ==
    LET p == ExpressionP(genes, distance, water, energy)
    IN IF p < 0 THEN {FALSE} ELSE IF p >= POne THEN {TRUE} ELSE BOOLEAN

\* random() < expression_p with random() in [0, 1): the possible results.
TestExpression(genes, distance, water, energy) ==
    LET p == ExpressionP(genes, distance, water, energy)
    IN IF p <= 0 THEN {FALSE} ELSE IF p >= POne THEN {TRUE} ELSE BOOLEAN

\* ------------------------------------------------------------------ cells
NoParent == <<>>
None == <<>>
NoGenome == <<>>

\* A PlantCell made without its cell_distance, which is then 0 for every cell.
PlantCellDropsDistance(cell_type, coords, parent, cell_distance) ==
    [cell_type |-> cell_type, coords |-> coords, parent |-> parent,
     cell_distance |-> 0, age |-> 0, is_alive |-> TRUE,
     water |-> 0, energy |-> 0,
     seed_progress_water |-> 0, seed_progress_energy |-> 0]

\* A PlantCell.  water and energy default to 0, age to 0; is_alive is the
\* class attribute True until an update assigns it.
PlantCell(cell_type, coords, parent, cell_distance) ==
    [cell_type |-> cell_type, coords |-> coords, parent |-> parent,
     cell_distance |-> cell_distance, age |-> 0, is_alive |-> TRUE,
     water |-> 0, energy |-> 0,
     seed_progress_water |-> 0, seed_progress_energy |-> 0]

\* A Seed that keeps PlantCell's defaults of no water and no energy.
SeedWithoutReserve(coords) == PlantCell("SEED", coords, NoParent, 0)

\* Seed(genome, coords): parent None, cell_distance 0, and water and energy of
\* seed_creation_cost each.
Seed(coords) ==
    [PlantCell("SEED", coords, NoParent, 0) EXCEPT
        !.water = seed_creation_cost, !.energy = seed_creation_cost]

\* CellUpdate(coords, update_with): update_with is None or one cell.  A Seed
\* carries its own genome; every other cell shares its plant's.
CellUpdate(coords, update_with, genome) ==
    [coords |-> coords, update_with |-> update_with, genome |-> genome]

Removal(self) == CellUpdate(self.coords, None, NoGenome)

\* What a cell's update leaves behind: the cell, its parent (changed by the
\* sharing), the records it returns, and whether it raised IndexError.
Outcome(self, parent, updates, error) ==
    [self |-> self, parent |-> parent, updates |-> updates, error |-> error]

\* _share_resources_with_parent: both get half of the pair's total.
Mean(a, b) == (a + b) \div 2

\* A sharing that gives the cell the mean and leaves the parent what it had.
ShareKeepsParent(self, parent) ==
    Outcome([self EXCEPT !.energy = Mean(parent.energy, self.energy),
                         !.water = Mean(parent.water, self.water)],
            parent, None, FALSE)

ShareResourcesWithParent(self, parent) ==
    Outcome([self EXCEPT !.energy = Mean(parent.energy, self.energy),
                         !.water = Mean(parent.water, self.water)],
            [parent EXCEPT !.energy = Mean(parent.energy, self.energy),
                           !.water = Mean(parent.water, self.water)],
            None, FALSE)

\* PlantCell.update: age, death by a dead parent, removal once decayed, and the
\* sharing of a live cell.  updates = None stands for the method returning None.
\* First an update without the death by a dead parent.
BaseUpdateOutlivesParent(self, parent) ==
    LET aged == [self EXCEPT !.age = self.age + 1]
    IN IF ~aged.is_alive /\ aged.age >= dead_cell_lifespan
       THEN Outcome(aged, parent, <<Removal(aged)>>, FALSE)
       ELSE IF aged.is_alive
            THEN ShareResourcesWithParent(aged, parent)
            ELSE Outcome(aged, parent, None, FALSE)

\* An update in which the cell that dies by its dead parent keeps its own age.
BaseUpdateKeepsAge(self, parent) ==
    LET dies == ~parent.is_alive /\ self.is_alive
        aged == IF dies
                THEN [self EXCEPT !.age = self.age + 1, !.is_alive = FALSE]
                ELSE [self EXCEPT !.age = self.age + 1]
    IN IF ~aged.is_alive /\ aged.age >= dead_cell_lifespan
       THEN Outcome(aged, parent, <<Removal(aged)>>, FALSE)
       ELSE IF aged.is_alive
            THEN ShareResourcesWithParent(aged, parent)
            ELSE Outcome(aged, parent, None, FALSE)

\* An update in which a cell without water or without energy dies as well.
BaseUpdateStarves(self, parent) ==
    LET dies == (~parent.is_alive \/ self.water < 0 \/ self.energy < 0) /\ self.is_alive
        aged == IF dies
                THEN [self EXCEPT !.age = parent.age, !.is_alive = FALSE]
                ELSE [self EXCEPT !.age = self.age + 1]
    IN IF ~aged.is_alive /\ aged.age >= dead_cell_lifespan
       THEN Outcome(aged, parent, <<Removal(aged)>>, FALSE)
       ELSE IF aged.is_alive
            THEN ShareResourcesWithParent(aged, parent)
            ELSE Outcome(aged, parent, None, FALSE)

BaseUpdate(self, parent) ==
    LET dies == ~parent.is_alive /\ self.is_alive
        aged == IF dies
                THEN [self EXCEPT !.age = parent.age, !.is_alive = FALSE]
                ELSE [self EXCEPT !.age = self.age + 1]
    IN IF ~aged.is_alive /\ aged.age >= dead_cell_lifespan
       THEN Outcome(aged, parent, <<Removal(aged)>>, FALSE)
       ELSE IF aged.is_alive
            THEN ShareResourcesWithParent(aged, parent)
            ELSE Outcome(aged, parent, None, FALSE)

\* _get_surrounding_soil_factor / _get_surrounding_air_factor, times 8: the loop
\* looks the direction offsets themselves up in all_coords and ground_matrix.
SurroundingSoil(all_coords) ==
    Cardinality({d \in 1..8 : coords_for_directions[d] \notin all_coords
                               /\ ground_matrix(coords_for_directions[d])})

SurroundingAir(all_coords) ==
    Cardinality({d \in 1..8 : coords_for_directions[d] \notin all_coords
                               /\ ~ground_matrix(coords_for_directions[d])})

CollectResources(self, all_coords) ==
    CASE self.cell_type = "STEM" ->
           [self EXCEPT !.energy = @ + (stem_energy_gain * SurroundingAir(all_coords)) \div 8]
      [] self.cell_type = "LEAF" ->
           [self EXCEPT !.energy = @ + (leaf_energy_gain * SurroundingAir(all_coords)) \div 8]
      [] self.cell_type = "ROOT" ->
           [self EXCEPT !.water = @ + (root_water_gain * SurroundingSoil(all_coords)) \div 8]
      [] OTHER -> self

\* ---------------------------------------------------------- growth sampling
\* The terrain a new cell of a type needs: ground for a Root, air for the
\* others; and a test that lets a Leaf grow on any terrain.
TerrainFitsLeafAnywhere(cell_type, c) ==
    cell_type = "LEAF" \/ (cell_type = "ROOT") = ground_matrix(c)

TerrainFits(cell_type, c) == (cell_type = "ROOT") = ground_matrix(c)

\* The direction loop of _sample_growth for one target type.  acc is the
\* growing cell, the records so far and the error flag; all_coords is not
\* changed during the pass.
RECURSIVE GrowDirections(_, _, _, _, _)
GrowDirections(acc, all_coords, directional_expressions, cell_type, d) ==
    IF d > 8 \/ acc.error THEN acc
    ELSE LET self == acc.self
             new_coords == CoordAdd(self.coords, coords_for_directions[d])
         IN IF ~directional_expressions[d] \/ new_coords \in all_coords
            THEN GrowDirections(acc, all_coords, directional_expressions, cell_type, d + 1)
            ELSE IF ~InMatrix(new_coords)
            THEN [acc EXCEPT !.error = TRUE]
            ELSE IF TerrainFits(cell_type, new_coords)
            THEN GrowDirections(
                   [acc EXCEPT
                      !.self = [self EXCEPT !.energy = @ - default_creation_cost,
                                            !.water = @ - default_creation_cost],
                      !.updates = Append(@, CellUpdate(new_coords,
                          <<PlantCell(cell_type, new_coords, self.coords, self.cell_distance + 1)>>,
                          NoGenome))],
                   all_coords, directional_expressions, cell_type, d + 1)
            ELSE GrowDirections(acc, all_coords, directional_expressions, cell_type, d + 1)

\* The loop over the target types: the resources are tested once per type,
\* before its directions.
RECURSIVE GrowTypes(_, _, _, _, _)
GrowTypes(acc, all_coords, expressions, order, n) ==
    IF n > Len(order) \/ acc.error THEN acc
    ELSE LET cell_type == order[n]
             next == IF acc.self.energy >= default_creation_cost
                        /\ acc.self.water >= default_creation_cost
                     THEN GrowDirections(acc, all_coords, expressions[cell_type], cell_type, 1)
                     ELSE acc
         IN GrowTypes(next, all_coords, expressions, order, n + 1)

SampleGrowth(self, parent, all_coords, expressions) ==
    GrowTypes(Outcome(self, parent, <<>>, FALSE), all_coords, expressions,
              GrowableOrder(self.cell_type), 1)

\* A (type, direction) whose test result _sample_growth reads the ground
\* matrix for: the target is not in all_coords, and is outside the matrix
\* (IndexError) or of the terrain the type needs.  The results of the other
\* draws change nothing.
Relevant(self, all_coords, cell_type, d) ==
    LET new_coords == CoordAdd(self.coords, coords_for_directions[d])
    IN new_coords \notin all_coords
       /\ (~InMatrix(new_coords) \/ TerrainFits(cell_type, new_coords))

\* The tables genome.test_expression can return for a cell, one per choice of
\* the uncertain draws that matter; a draw that cannot change the pass is
\* taken as its certain value, or FALSE.
Expressions(genome, self, all_coords) ==
    LET targets == Range(GrowableOrder(self.cell_type))
        Draws(t, d) == TestExpression(genome[self.cell_type][t][d], self.cell_distance,
                                      self.water, self.energy)
        open == {td \in targets \X (1..8) :
                    Draws(td[1], td[2]) = BOOLEAN /\ Relevant(self, all_coords, td[1], td[2])}
    IN {[t \in targets |-> [d \in 1..8 |->
            IF <<t, d>> \in open THEN <<t, d>> \in on ELSE Draws(t, d) = {TRUE}]]
        : on \in SUBSET open}

\* ------------------------------------------------------------ cell updates
\* Seed._fall_down: the seed removed where it is and a copy (genome, coords,
\* age, parent, water and energy) one row down.
FallDown(self, genome) ==
    LET self_moved ==
          [Seed(<<self.coords[1], self.coords[2] + 1>>) EXCEPT
              !.age = self.age, !.water = self.water, !.energy = self.energy]
    IN Outcome(self, self,
               <<Removal(self), CellUpdate(self_moved.coords, <<self_moved>>, genome)>>,
               FALSE)

\* Seed.update
SeedUpdate(self, genome, all_coords, expressions) ==
    IF ~ground_matrix(self.coords) THEN FallDown(self, genome)
    ELSE LET dies == self.is_alive /\ self.age + 1 >= cell_lifespan
             aged == IF dies
                     THEN [self EXCEPT !.age = 0, !.is_alive = FALSE]
                     ELSE [self EXCEPT !.age = self.age + 1]
         IN IF ~aged.is_alive /\ aged.age >= dead_cell_lifespan
            THEN Outcome(aged, aged, <<Removal(aged)>>, FALSE)
            ELSE IF aged.is_alive
                 THEN SampleGrowth(aged, aged, all_coords, expressions)
                 ELSE Outcome(aged, aged, None, FALSE)

\* Stem.update and Root.update
GrowerUpdate(self, parent, all_coords, expressions) ==
    LET potential_result == BaseUpdate(self, parent)
    IN IF potential_result.updates # None THEN potential_result
       ELSE IF potential_result.self.is_alive
            THEN SampleGrowth(CollectResources(potential_result.self, all_coords),
                              potential_result.parent, all_coords, expressions)
            ELSE potential_result

\* Leaf.update
LeafUpdate(self, parent, all_coords) ==
    LET potential_result == BaseUpdate(self, parent)
    IN IF potential_result.updates # None THEN potential_result
       ELSE IF potential_result.self.is_alive
            THEN [potential_result EXCEPT !.self = CollectResources(@, all_coords)]
            ELSE potential_result

\* Flower._grow_seed; mutated is the genome self.genome.mutate() returns.  First
\* a _grow_seed whose result lacks the record that removes the Flower.
GrowSeedKeepsFlower(self, parent, mutated) ==
    LET takes_water == self.water > flower_grow_rate
                       /\ self.seed_progress_water < seed_creation_cost
        takes_energy == self.energy > flower_grow_rate
                        /\ self.seed_progress_energy < seed_creation_cost
        grown == [self EXCEPT
                    !.water = IF takes_water THEN @ - flower_grow_rate ELSE @,
                    !.seed_progress_water =
                        IF takes_water THEN @ + flower_grow_rate * flower_growth_efficiency ELSE @,
                    !.energy = IF takes_energy THEN @ - flower_grow_rate ELSE @,
                    !.seed_progress_energy =
                        IF takes_energy THEN @ + flower_grow_rate * flower_growth_efficiency ELSE @]
    IN IF grown.seed_progress_energy >= seed_creation_cost
          /\ grown.seed_progress_water >= seed_creation_cost
       THEN Outcome(grown, parent,
                    <<CellUpdate(grown.coords, <<Seed(grown.coords)>>, mutated)>>, FALSE)
       ELSE Outcome(grown, parent, None, FALSE)

GrowSeed(self, parent, mutated) ==
    LET takes_water == self.water > flower_grow_rate
                       /\ self.seed_progress_water < seed_creation_cost
        takes_energy == self.energy > flower_grow_rate
                        /\ self.seed_progress_energy < seed_creation_cost
        grown == [self EXCEPT
                    !.water = IF takes_water THEN @ - flower_grow_rate ELSE @,
                    !.seed_progress_water =
                        IF takes_water THEN @ + flower_grow_rate * flower_growth_efficiency ELSE @,
                    !.energy = IF takes_energy THEN @ - flower_grow_rate ELSE @,
                    !.seed_progress_energy =
                        IF takes_energy THEN @ + flower_grow_rate * flower_growth_efficiency ELSE @]
    IN IF grown.seed_progress_energy >= seed_creation_cost
          /\ grown.seed_progress_water >= seed_creation_cost
       THEN Outcome(grown, parent,
                    <<Removal(grown), CellUpdate(grown.coords, <<Seed(grown.coords)>>, mutated)>>,
                    FALSE)
       ELSE Outcome(grown, parent, None, FALSE)

\* Flower.update
FlowerUpdate(self, parent, mutated) ==
    LET potential_result == BaseUpdate(self, parent)
    IN IF potential_result.updates # None THEN potential_result
       ELSE GrowSeed(potential_result.self, potential_result.parent, mutated)

\* cell.update(all_coords, ground_matrix), by the cell's class
UpdateCell(self, parent, genome, all_coords, expressions, mutated) ==
    CASE self.cell_type = "SEED" -> SeedUpdate(self, genome, all_coords, expressions)
      [] self.cell_type \in {"STEM", "ROOT"} -> GrowerUpdate(self, parent, all_coords, expressions)
      [] self.cell_type = "LEAF" -> LeafUpdate(self, parent, all_coords)
      [] OTHER -> FlowerUpdate(self, parent, mutated)

\* --------------------------------------------------------------- mutation
\* The draws of the random source that get_mutation is explored with: the gene
\* (source, target, direction) selected, and the offset added to its growth_p.
MutationDraws == { <<"SEED", "STEM", 3, -1>> }

\* A mutation that also gives the Leaf a rule of its own.
MutateGeneAddsRule(genome, m) ==
    [genome EXCEPT ![m[1]][m[2]][m[3]].growth_p = @ + m[4],
                   !["LEAF"] = [t \in {"LEAF"} |-> ZeroGenes]]

MutateGene(genome, m) ==
    [genome EXCEPT ![m[1]][m[2]][m[3]].growth_p = @ + m[4]]

\* Genome.get_mutation: a copy, gene by gene, of which the selected genes are
\* changed; with no gene selected it is an equal genome.
GetMutation(genome) ==
    {genome} \cup {MutateGene(genome, m) : m \in MutationDraws}

\* ------------------------------------------------------------------ plant
\* Plant(plant_cells, genome, coord): the cell map in insertion order, the
\* fall position, the age in ticks and whether the plant has landed.
Plant(genome, coord) ==
    [plant_cells |-> <<>>, genome |-> genome, coord |-> coord, age |-> 0, landed |-> FALSE]

CellCoords(plant) == {plant.plant_cells[k].coords : k \in DOMAIN plant.plant_cells}

\* The position of the key c in the cell map, 0 when it is no key.
KeyIndex(plant_cells, c) ==
    IF \E k \in DOMAIN plant_cells : plant_cells[k].coords = c
    THEN CHOOSE k \in DOMAIN plant_cells : plant_cells[k].coords = c
    ELSE 0

DeleteKey(plant_cells, c) ==
    SelectSeq(plant_cells, LAMBDA cell : cell.coords # c)

\* plant_cells[c] = cell: an existing key keeps its place, a new key goes last.
SetKey(plant_cells, c, cell) ==
    IF KeyIndex(plant_cells, c) = 0 THEN Append(plant_cells, cell)
    ELSE [plant_cells EXCEPT ![KeyIndex(plant_cells, c)] = cell]

\* The parent object of a cell.  A parent no longer in the map is a removed
\* cell: dead, of the age it was removed at.
Detached == [PlantCell("NONE", <<>>, NoParent, 0) EXCEPT
                !.is_alive = FALSE, !.age = dead_cell_lifespan]

ParentOf(plant_cells, self) ==
    IF self.parent # NoParent /\ KeyIndex(plant_cells, self.parent) # 0
    THEN plant_cells[KeyIndex(plant_cells, self.parent)]
    ELSE Detached

\* The cell and its parent are objects the map refers to: their new fields
\* show in the map.
WriteBack(plant_cells, c, outcome) ==
    LET with_self == [plant_cells EXCEPT ![KeyIndex(plant_cells, c)] = outcome.self]
        pk == IF outcome.self.parent = NoParent THEN 0
              ELSE KeyIndex(plant_cells, outcome.self.parent)
    IN IF pk = 0 THEN with_self ELSE [with_self EXCEPT ![pk] = outcome.parent]

\* The state a plant's update works on: its cell map, the shared occupied set
\* and the new plants it will return.
PlantState(plant_cells, occupied, born) ==
    [plant_cells |-> plant_cells, occupied |-> occupied, born |-> born]

\* Applying the records of one cell's update, in order: a removal deletes the
\* cell and frees its coordinate, a Seed becomes a new unlanded plant at its
\* coordinate, any other cell is put into the map and claims its coordinate.
RECURSIVE ApplyUpdates(_, _, _)
ApplyUpdates(st, updates, n) ==
    IF n > Len(updates) THEN st
    ELSE LET u == updates[n]
             next ==
               IF u.update_with = None
               THEN PlantState(DeleteKey(st.plant_cells, u.coords),
                               st.occupied \ {u.coords}, st.born)
               ELSE IF u.update_with[1].cell_type = "SEED"
               THEN PlantState(st.plant_cells, st.occupied,
                               Append(st.born, Plant(u.genome, u.coords)))
               ELSE PlantState(SetKey(st.plant_cells, u.coords, u.update_with[1]),
                               st.occupied \cup {u.coords}, st.born)
         IN ApplyUpdates(next, updates, n + 1)

\* One cell of the snapshot: its update, then its records applied.
AfterCell(st, c, outcome) ==
    ApplyUpdates(PlantState(WriteBack(st.plant_cells, c, outcome), st.occupied, st.born),
                 outcome.updates, 1)

\* Landing: a Seed at the plant's coordinate unless the coordinate is taken;
\* and a landing that does not look at the occupied set.
LandRegardless(plant, occupied) ==
    [plant EXCEPT !.landed = TRUE, !.plant_cells = <<Seed(plant.coord)>>]

Land(plant, occupied) ==
    [plant EXCEPT !.landed = TRUE,
                  !.plant_cells = IF plant.coord \in occupied THEN @
                                  ELSE <<Seed(plant.coord)>>]

\* clear_coords: the plant's coordinates leave the occupied set.
ClearCoords(plant, occupied) == occupied \ CellCoords(plant)

\* -------------------------------------------------------------- simulation
VARIABLES
    plants,            \* PlantSim.plants
    occupied_coords,   \* PlantSim.occupied_coords
    new_plants,        \* update(): the lists the plants returned so far
    remove_plants,     \* update(): whether a plant expired
    pc,                \* "idle", or where update() is: "loop", "cells", "returned"; "crashed"
    i,                 \* update(): the position of the loop in plants
    todo,              \* Plant.update: the snapshot keys still to visit
    born,              \* Plant.update: the new plants it will return
    tick,              \* update() calls completed
    died,              \* history: <<coords, tick>> of the dead cells in the maps
    spawned,           \* history: the cells that grew cells, this update and the last
    cell_updates,      \* history: the records the last cell update returned
    call               \* the function applied on its own: its arguments and its result

vars == <<plants, occupied_coords, new_plants, remove_plants, pc, i, todo, born, tick,
          died, spawned, cell_updates, cell_lifespan, call>>

\* PlantSim.create: the x positions are range(0, grid_size.x, int(grid_size.x /
\* n_plants)), each shifted by int(grid_size.x / n_plants / 2).
\* For a grid of the given width and n plants: the step of the range, the
\* length of the range, and the list of plants; a step of 0 makes range()
\* raise ValueError.
CreateStepOf(width, n) == width \div n
CreateCountOf(width, n) == (width + CreateStepOf(width, n) - 1) \div CreateStepOf(width, n)
initial_plant_coord_y == grid_size_y \div 4

CreatePlants(width, n) ==
    [k \in 1..CreateCountOf(width, n) |->
        Plant(Genome_init_random,
              <<(k - 1) * CreateStepOf(width, n) + width \div (2 * n), initial_plant_coord_y>>)]

PlantSim(occupied, plant_list, error) ==
    [occupied_coords |-> occupied, plants |-> plant_list, error |-> error]

CreateFor(width, n) ==
    IF CreateStepOf(width, n) = 0 THEN PlantSim({}, <<>>, TRUE)
    ELSE PlantSim({}, CreatePlants(width, n), FALSE)

CreateStep == CreateStepOf(grid_size_x, n_plants)
CreateCount == CreateCountOf(grid_size_x, n_plants)

Create == CreatePlants(grid_size_x, n_plants)

NoCall == [op |-> "none"]

Init ==
    /\ CreateStep > 0
    /\ cell_lifespan \in CellLifespans
    /\ plants = Create
    /\ occupied_coords = {}
    /\ new_plants = <<>>
    /\ remove_plants = FALSE
    /\ pc = "idle"
    /\ i = 0
    /\ todo = <<>>
    /\ born = <<>>
    /\ tick = 0
    /\ died = {}
    /\ spawned = [now |-> {}, prev |-> {}]
    /\ cell_updates = None
    /\ call = NoCall

ExpiredEarly(plant) == plant.age >= plant_lifespan + dead_cell_lifespan

Expired(plant) == plant.age > plant_lifespan + dead_cell_lifespan

\* update() is entered.
UpdateBegin ==
    /\ pc = "idle"
    /\ tick < MaxTicks
    /\ new_plants' = <<>>
    /\ remove_plants' = FALSE
    /\ i' = 1
    /\ pc' = "loop"
    /\ UNCHANGED <<plants, occupied_coords, todo, born, tick, died, spawned, cell_updates,
                   cell_lifespan, call>>

\* plant.update(occupied_coords, ground_matrix) up to its pass over the cells:
\* the plant ages; past its lifespan nothing more happens; an unlanded plant
\* lands on ground or falls one row; a landed plant snapshots its keys.
PlantUpdate ==
    /\ pc = "loop"
    /\ i <= Len(plants)
    /\ LET aged == [plants[i] EXCEPT !.age = @ + 1]
       IN IF aged.age >= plant_lifespan
          THEN /\ plants' = [plants EXCEPT ![i] = aged]
               /\ pc' = "returned"
               /\ UNCHANGED <<occupied_coords, todo>>
          ELSE IF ~aged.landed
          THEN /\ IF ground_matrix(aged.coord)
                  THEN /\ plants' = [plants EXCEPT ![i] = Land(aged, occupied_coords)]
                       /\ occupied_coords' = occupied_coords \cup {aged.coord}
                  ELSE /\ plants' = [plants EXCEPT ![i] =
                                        [aged EXCEPT !.coord = CoordAdd(@, <<0, 1>>)]]
                       /\ UNCHANGED occupied_coords
               /\ pc' = "returned"
               /\ UNCHANGED todo
          ELSE /\ plants' = [plants EXCEPT ![i] = aged]
               /\ todo' = [k \in DOMAIN aged.plant_cells |-> aged.plant_cells[k].coords]
               /\ pc' = IF aged.plant_cells = <<>> THEN "returned" ELSE "cells"
               /\ UNCHANGED occupied_coords
    /\ born' = <<>>
    /\ UNCHANGED <<new_plants, remove_plants, i, tick, died, spawned, cell_updates,
                   cell_lifespan, call>>

\* The coordinates the records remove, and whether the records hold a grown cell.
RemovedBy(updates) ==
    IF updates = None THEN {}
    ELSE {updates[n].coords : n \in {m \in DOMAIN updates : updates[m].update_with = None}}

Grew(updates) ==
    /\ updates # None
    /\ \E n \in DOMAIN updates :
          /\ updates[n].update_with # None
          /\ updates[n].update_with[1].cell_type # "SEED"

\* The update of the next cell of the snapshot, and its records applied to the
\* cell map and the occupied set.  An IndexError ends the program.
CellStep ==
    /\ pc = "cells"
    /\ todo # <<>>
    /\ LET plant == plants[i]
           c == Head(todo)
           k == KeyIndex(plant.plant_cells, c)
           rest == IF Tail(todo) = <<>> THEN "returned" ELSE "cells"
       IN IF k = 0
          THEN /\ pc' = rest
               /\ UNCHANGED <<plants, occupied_coords, born, died, spawned, cell_updates>>
          ELSE LET self == plant.plant_cells[k]
                   parent == ParentOf(plant.plant_cells, self)
               IN \E expressions \in Expressions(plant.genome, self, occupied_coords),
                     mutated \in IF self.cell_type = "FLOWER"
                                 THEN GetMutation(plant.genome) ELSE {plant.genome} :
                    LET outcome == UpdateCell(self, parent, plant.genome, occupied_coords,
                                              expressions, mutated)
                        st == AfterCell(PlantState(plant.plant_cells, occupied_coords, born),
                                        c, outcome)
                        gone == RemovedBy(outcome.updates)
                    IN IF outcome.error
                       THEN /\ pc' = "crashed"
                            /\ UNCHANGED <<plants, occupied_coords, born, died, spawned, cell_updates>>
                       ELSE /\ pc' = rest
                            /\ plants' = [plants EXCEPT ![i].plant_cells = st.plant_cells]
                            /\ occupied_coords' = st.occupied
                            /\ born' = st.born
                            /\ died' = {e \in died \cup
                                              (IF self.is_alive /\ ~outcome.self.is_alive
                                               THEN {<<c, tick>>} ELSE {}) :
                                          e[1] \notin gone}
                            /\ spawned' = [now |-> (spawned.now \cup
                                                      (IF Grew(outcome.updates) THEN {c} ELSE {}))
                                                   \ gone,
                                           prev |-> spawned.prev \ gone]
                            /\ cell_updates' = outcome.updates
    /\ todo' = Tail(todo)
    /\ UNCHANGED <<new_plants, remove_plants, i, tick, cell_lifespan, call>>

\* "if plant.age > Config.plant_lifespan + Config.dead_cell_lifespan:
\* plant.clear_coords(self.occupied_coords)", and two slips of it: the call
\* left out, and the limit without dead_cell_lifespan.
ReapKeepsCoords(plant, occupied) == occupied

ReapAtLifespan(plant, occupied) ==
    IF plant.age >= plant_lifespan THEN ClearCoords(plant, occupied) ELSE occupied

Reap(plant, occupied) ==
    IF Expired(plant) THEN ClearCoords(plant, occupied) ELSE occupied

\* Back in update(): the returned list is kept, and an expired plant gives up
\* its coordinates.
PlantReturned ==
    /\ pc = "returned"
    /\ new_plants' = Append(new_plants, born)
    /\ occupied_coords' = Reap(plants[i], occupied_coords)
    /\ remove_plants' = (remove_plants \/ Expired(plants[i]))
    /\ IF Expired(plants[i])
       THEN /\ died' = {e \in died : e[1] \notin CellCoords(plants[i])}
            /\ spawned' = [now |-> spawned.now \ CellCoords(plants[i]),
                           prev |-> spawned.prev \ CellCoords(plants[i])]
       ELSE UNCHANGED <<died, spawned>>
    /\ i' = i + 1
    /\ pc' = "loop"
    /\ cell_updates' = None
    /\ UNCHANGED <<plants, todo, born, tick, cell_lifespan, call>>

\* "for new_plant_list in new_plants: for new_plant in new_plant_list"
FlattenLast(lists) == IF lists = <<>> THEN <<>> ELSE lists[Len(lists)]

RECURSIVE Flatten(_)
Flatten(lists) == IF lists = <<>> THEN <<>> ELSE Head(lists) \o Flatten(Tail(lists))

Survivors(ps) == SelectSeq(ps, LAMBDA plant : ~Expired(plant))

\* After the loop: the expired plants leave the list, then the new ones join it.
UpdateEnd ==
    /\ pc = "loop"
    /\ i > Len(plants)
    /\ plants' = (IF remove_plants THEN Survivors(plants) ELSE plants) \o Flatten(new_plants)
    /\ pc' = "idle"
    /\ i' = 0
    /\ tick' = tick + 1
    /\ spawned' = [now |-> {}, prev |-> spawned.now]
    /\ UNCHANGED <<occupied_coords, new_plants, remove_plants, todo, born, died, cell_updates,
                   cell_lifespan, call>>

Next == UpdateBegin \/ PlantUpdate \/ CellStep \/ PlantReturned \/ UpdateEnd

Spec == Init /\ [][Next]_vars

\* ---------------------------------------------------- functions on their own
\* create() and the operations of Coord applied to arguments of small sets,
\* the simulation left as create() made it.  Each behaviour is one call: the
\* functions keep no state between calls.
MaxCreateWidth == 12
MaxCreatePlants == 4
MaxCoord == 1

sim_vars == <<plants, occupied_coords, new_plants, remove_plants, pc, i, todo, born, tick,
              died, spawned, cell_updates, cell_lifespan>>

Coords(id) == {Coord(id, x, y) : x \in (-MaxCoord)..MaxCoord, y \in (-MaxCoord)..MaxCoord}

CallCreate ==
    /\ call = NoCall
    /\ \E width \in 1..MaxCreateWidth, n \in 1..MaxCreatePlants :
          call' = [op |-> "create", width |-> width, n |-> n, result |-> CreateFor(width, n)]
    /\ UNCHANGED sim_vars

\* a + b for two objects a and b, or for one object taken twice.
CallCoordAdd ==
    /\ call = NoCall
    /\ \E a \in Coords(1) : \E b \in Coords(2) \cup {a} :
          call' = [op |-> "add", a |-> a, b |-> b, result |-> Coord_add(a, b, 3),
                   a_after |-> a, b_after |-> b]
    /\ UNCHANGED sim_vars

\* a == b, b == a, a == a and the two hashes.
CallCoordEq ==
    /\ call = NoCall
    /\ \E a \in Coords(1) : \E b \in Coords(2) \cup {a} :
          call' = [op |-> "eq", a |-> a, b |-> b,
                   eq_ab |-> Coord_eq(a, b), eq_ba |-> Coord_eq(b, a), eq_aa |-> Coord_eq(a, a),
                   hash_a |-> Coord_hash(a), hash_b |-> Coord_hash(b)]
    /\ UNCHANGED sim_vars

\* A plant of three cells ticked on its own: a Seed of a given age, a Stem
\* above it and a third cell beside the Stem, every coordinate around them
\* taken, so that nothing grows.  The cells are ticked MaxFamilyTicks times in
\* an order given, which need not be the order of the map.
MaxFamilyTicks == 5

Crowded == {<<x, y>> : x \in (-1)..grid_size_x, y \in (-1)..grid_size_y}

FamilyCoords == <<<<0, 1>>, <<0, 0>>, <<1, 0>>>>

Family(seed_age, third) ==
    << [Seed(FamilyCoords[1]) EXCEPT !.age = seed_age],
       PlantCell("STEM", FamilyCoords[2], FamilyCoords[1], 1),
       PlantCell(third, FamilyCoords[3], FamilyCoords[2], 2) >>

Orders == {o \in [1..3 -> Range(FamilyCoords)] : \A m, n \in 1..3 : m # n => o[m] # o[n]}

\* cell.update for the cell at c, and its records applied.
TickCell(cells, c) ==
    LET k == KeyIndex(cells, c)
    IN IF k = 0 THEN cells
       ELSE AfterCell(PlantState(cells, Crowded, <<>>), c,
                      UpdateCell(cells[k], ParentOf(cells, cells[k]), Genome_init_random, Crowded,
                                 CHOOSE e \in Expressions(Genome_init_random, cells[k], Crowded) : TRUE,
                                 Genome_init_random)).plant_cells

RECURSIVE TickInOrder(_, _, _)
TickInOrder(cells, order, n) ==
    IF n > Len(order) THEN cells
    ELSE TickInOrder(TickCell(cells, order[n]), order, n + 1)

\* The cell maps after each of t ticks.
RECURSIVE TickHistory(_, _, _)
TickHistory(cells, order, t) ==
    IF t = 0 THEN <<>>
    ELSE <<TickInOrder(cells, order, 1)>>
            \o TickHistory(TickInOrder(cells, order, 1), order, t - 1)

CallTicks ==
    /\ call = NoCall
    /\ \E order \in Orders, third \in {"LEAF", "STEM"},
          seed_age \in {cell_lifespan - 2, cell_lifespan - 1} :
          call' = [op |-> "ticks", order |-> order,
                   history |-> TickHistory(Family(seed_age, third), order, MaxFamilyTicks)]
    /\ UNCHANGED sim_vars

\* cell.update applied once to one cell on its own: a cell of each class, alive
\* or dead, young or at the end of the lifespan, its water and energy each
\* negative, none or plenty, under a parent alive or dead, among free
\* coordinates or with every coordinate taken.
ResourceLevels == {-default_creation_cost, 0, 2 * default_creation_cost}

UpdateParentType(cell_type) ==
    CASE cell_type \in {"STEM", "ROOT"} -> "SEED"
      [] cell_type \in {"LEAF", "FLOWER"} -> "STEM"
      [] OTHER -> "NONE"

UpdateCoords(cell_type) ==
    CASE cell_type = "SEED" -> <<0, GroundRow>>
      [] cell_type = "STEM" -> <<0, GroundRow - 1>>
      [] cell_type = "ROOT" -> <<1, GroundRow + 1>>
      [] OTHER -> <<1, GroundRow - 1>>

UpdateParent(cell_type, is_alive, age, level) ==
    IF cell_type = "SEED" THEN Detached
    ELSE [PlantCell(UpdateParentType(cell_type), UpdateCoords(UpdateParentType(cell_type)),
                    NoParent, IF cell_type \in {"STEM", "ROOT"} THEN 0 ELSE 1)
            EXCEPT !.is_alive = is_alive, !.age = age, !.water = level, !.energy = level]

UpdateSelf(cell_type, is_alive, age, water, energy) ==
    [PlantCell(cell_type, UpdateCoords(cell_type),
               IF cell_type = "SEED" THEN NoParent
               ELSE UpdateCoords(UpdateParentType(cell_type)),
               CASE cell_type = "SEED" -> 0
                 [] cell_type \in {"STEM", "ROOT"} -> 1
                 [] OTHER -> 2)
        EXCEPT !.is_alive = is_alive, !.age = age, !.water = water, !.energy = energy]

CallUpdate ==
    /\ call = NoCall
    /\ \E cell_type \in CellTypes, is_alive \in BOOLEAN, parent_alive \in BOOLEAN,
          age \in {0, cell_lifespan - 1},
          water \in ResourceLevels, energy \in ResourceLevels, level \in ResourceLevels,
          crowded \in BOOLEAN :
          LET self == UpdateSelf(cell_type, is_alive, age, water, energy)
              parent == UpdateParent(cell_type, parent_alive, age, level)
              all_coords == IF crowded THEN Crowded
                            ELSE {self.coords} \cup
                                 (IF cell_type = "SEED" THEN {} ELSE {parent.coords})
          IN \E expressions \in Expressions(Genome_init_random, self, all_coords) :
                call' = [op |-> "update", self |-> self, parent |-> parent,
                         all_coords |-> all_coords,
                         result |-> UpdateCell(self, parent, Genome_init_random, all_coords,
                                               expressions, Genome_init_random)]
    /\ UNCHANGED sim_vars

\* One tick of the Stem or of the third cell of a family of three, for the
\* sharing with the parent: every coordinate is taken, so the ticked cell
\* collects nothing and grows nothing.  The code halves a float total, which is
\* exact; the levels are even numbers of steps, so that the halving of the
\* model is exact as well.
MaxShare == 1
ShareLevels == {2 * k : k \in (-MaxShare)..MaxShare}

CallShare ==
    /\ call = NoCall
    /\ \E third \in {"LEAF", "STEM", "ROOT"}, ticked \in 2..3,
          stem_water \in ShareLevels, stem_energy \in ShareLevels,
          third_water \in ShareLevels, third_energy \in ShareLevels :
          LET family == Family(0, third)
              cells == [family EXCEPT ![2].water = stem_water, ![2].energy = stem_energy,
                                      ![3].water = third_water, ![3].energy = third_energy]
          IN call' = [op |-> "share", cells |-> cells, ticked |-> ticked,
                      result |-> TickCell(cells, FamilyCoords[ticked])]
    /\ UNCHANGED sim_vars

\* get_mutation object by object, for what the copy shares with its source.  A
\* DirectionalGrowthGenes object and the numpy array of its factors each have
\* an identity; a rule is a list of MaxGenes genes.  The scalars of a gene are
\* its factors and, last, its growth_p.
MaxGenes == 2
Scalars == 1..(n_factors + 1)

Array(id, values) == [id |-> id, values |-> values]

DirectionalGrowthGenes(id, growth_p, factors) ==
    [id |-> id, growth_p |-> growth_p, factors |-> factors]

\* A copy that keeps the array of its source.
Genes_copy_shallow(self, id) == DirectionalGrowthGenes(id, self.growth_p, self.factors)

\* DirectionalGrowthGenes.copy: a new object with factors.copy(), a new array.
Genes_copy(self, id) ==
    DirectionalGrowthGenes(id, self.growth_p, Array(id, self.factors.values))

Bit(b) == IF b THEN 1 ELSE 0

\* DirectionalGrowthGenes.get_mutation.  draw holds the outcomes of the random
\* source: selected (random() < direction_mutation_p), the masks is_mutated and
\* is_redetermination, the offset and the redetermined value.
Genes_get_mutation(self, id, draw) ==
    IF draw.selected
    THEN LET all_factors == Append(self.factors.values, self.growth_p)
             mutated_factors ==
               [k \in Scalars |->
                  draw.redetermination * Bit(k \in draw.is_redetermination)
                    + (all_factors[k] + draw.offset) * Bit(k \notin draw.is_redetermination)]
             new_factors ==
               [k \in Scalars |->
                  mutated_factors[k] * Bit(k \in draw.is_mutated)
                    + all_factors[k] * Bit(k \notin draw.is_mutated)]
         IN DirectionalGrowthGenes(id, new_factors[n_factors + 1],
                                   Array(id, SubSeq(new_factors, 1, n_factors)))
    ELSE Genes_copy(self, id)

\* CellTypeGrowthInfo.get_mutation for one target: a new list, gene by gene.
GrowthInfo_get_mutation(directional_genes_list, draws) ==
    [k \in DOMAIN directional_genes_list |->
        Genes_get_mutation(directional_genes_list[k], Len(directional_genes_list) + k, draws[k])]

\* The rule mutated in the calls: genes with scalars all different and not 0.
SourceGenes ==
    [k \in 1..MaxGenes |->
        DirectionalGrowthGenes(k, base_growth_p + k, Array(k, [j \in 1..n_factors |-> j + k]))]

CallMutate ==
    /\ call = NoCall
    /\ \E selected \in [1..MaxGenes -> BOOLEAN], is_mutated \in SUBSET Scalars,
          is_redetermination \in {{}, {1, n_factors + 1}, Scalars}, offset \in {-1, 1} :
          LET draws == [k \in 1..MaxGenes |->
                          [selected |-> selected[k], is_mutated |-> is_mutated,
                           is_redetermination |-> is_redetermination,
                           offset |-> offset, redetermination |-> 0]]
          IN call' = [op |-> "mutate", source |-> SourceGenes, draws |-> draws,
                      result |-> GrowthInfo_get_mutation(SourceGenes, draws),
                      source_after |-> SourceGenes]
    /\ UNCHANGED sim_vars

CallInit == Init

CallNext ==
    \/ CallCreate \/ CallCoordAdd \/ CallCoordEq \/ CallTicks
    \/ CallUpdate \/ CallShare \/ CallMutate

CallSpec == CallInit /\ [][CallNext]_vars

\* ------------------------------------------------------------- properties
\* Every cell of every plant, as <<position of the plant, position in its map>>.
CellRefs ==
    UNION {{<<p, k>> : k \in DOMAIN plants[p].plant_cells} : p \in DOMAIN plants}

CellAt(r) == plants[r[1]].plant_cells[r[2]]

Adjacent(a, b) == \E d \in 1..8 : CoordAdd(a, coords_for_directions[d]) = b

\* C1: after any number of update() calls, no coordinate is held by more than
\* one cell, the cells of all plants counted together.
C1_OneCellPerCoordinate ==
    pc = "idle" =>
        \A a, b \in CellRefs : a # b => CellAt(a).coords # CellAt(b).coords

\* Two plants have grown next to each other: cells of different plants are
\* neighbours, so that each one's growth had the other's cell as a target.
C1_NeighbouringPlants ==
    /\ pc = "idle"
    /\ \E a, b \in CellRefs :
          /\ a[1] # b[1]
          /\ Adjacent(CellAt(a).coords, CellAt(b).coords)
          /\ Len(plants[a[1]].plant_cells) > 1
          /\ Len(plants[b[1]].plant_cells) > 1

\* C2: between update() calls the occupied set is exactly the set of the
\* coordinates of the cells of all plants: no cell is unregistered and no
\* coordinate is left behind.
C2_OccupiedIsUnionOfCells ==
    pc = "idle" =>
        occupied_coords = UNION {CellCoords(plants[p]) : p \in DOMAIN plants}

\* The first plant has been reaped while its offspring hold cells.
C2_AfterReaping ==
    /\ pc = "idle"
    /\ tick > 0
    /\ \A p \in DOMAIN plants : plants[p].age < tick
    /\ occupied_coords # {}

\* C3, as stated: every Root is on a ground coordinate and every other cell,
\* the Seed included, is on an air coordinate.
C3_RootGroundOthersAir ==
    \A r \in CellRefs :
        (CellAt(r).cell_type = "ROOT") = ground_matrix(CellAt(r).coords)

\* C3, amended: every Root and every Seed is on a ground coordinate, and every
\* Stem, Leaf and Flower on an air coordinate.
C3_SeedAndRootOnGround ==
    \A r \in CellRefs :
        (CellAt(r).cell_type \in {"ROOT", "SEED"}) = ground_matrix(CellAt(r).coords)

\* A plant with its Seed, a Root, a Stem and a cell the Stem has grown.
C3_GrownPlant ==
    \E p \in DOMAIN plants :
        LET types == {plants[p].plant_cells[k].cell_type : k \in DOMAIN plants[p].plant_cells}
        IN {"SEED", "ROOT", "STEM"} \subseteq types /\ types \cap {"LEAF", "FLOWER"} # {}

\* The cell whose update a step of the pass performs, before the step.
StepsCell == pc = "cells" /\ pc' # "crashed" /\ KeyIndex(plants[i].plant_cells, Head(todo)) # 0

SelfBefore == plants[i].plant_cells[KeyIndex(plants[i].plant_cells, Head(todo))]

SelfRemoved == KeyIndex(plants'[i].plant_cells, Head(todo)) = 0

\* The tick at which the cell at c died, for a dead cell of a map.
DiedAt(c) == (CHOOSE e \in died : e[1] = c)[2]

\* C4: a cell whose is_alive is False never has it True again, and the removal
\* record of a dead cell is emitted exactly dead_cell_lifespan ticks after the
\* tick of its death: a cell that is dead, or dies in this update because its
\* parent is dead, is removed by the update if and only if it died
\* dead_cell_lifespan ticks ago.
C4_DeadStaysDeadAndDecaysOnTime ==
    [][StepsCell =>
        /\ \A k \in DOMAIN plants[i].plant_cells :
              LET cell == plants[i].plant_cells[k]
                  after == KeyIndex(plants'[i].plant_cells, cell.coords)
              IN ~cell.is_alive /\ after # 0 =>
                    ~plants'[i].plant_cells[after].is_alive
        /\ LET dead == ~SelfBefore.is_alive
               dies == SelfBefore.is_alive
                       /\ ~ParentOf(plants[i].plant_cells, SelfBefore).is_alive
                       /\ SelfBefore.cell_type # "SEED"
               due == dead /\ tick - DiedAt(Head(todo)) = dead_cell_lifespan
           IN (dead \/ dies) => (SelfRemoved <=> due)
    ]_vars

\* C5: a cell that has spawned is held back by its growth cooldown, so a cell
\* that grew a cell in one tick grows none in the next.
C5_NoGrowthOnTheNextTick ==
    [][StepsCell /\ Head(todo) \in spawned.prev => Head(todo) \notin spawned'.now]_vars

\* The step of update() that enters plant.update for the plant at position i.
EntersPlant == pc = "loop" /\ i <= Len(plants)

OneSeedAt(plant_cells, c) ==
    /\ Len(plant_cells) = 1
    /\ plant_cells[1].cell_type = "SEED"
    /\ plant_cells[1].coords = c

\* An unlanded plant on air moves down one row and does nothing else; on
\* ground it lands where it is, its coordinate joins the occupied set, and its
\* cell map is as seeded says; a landed plant never moves.
FallsThenLands(seeded(_, _)) ==
    /\ EntersPlant /\ ~plants[i].landed /\ plants[i].age + 1 < plant_lifespan =>
          LET p == plants[i]
              q == plants'[i]
          IN IF ~ground_matrix(p.coord)
             THEN /\ q.coord = <<p.coord[1], p.coord[2] + 1>>
                  /\ ~q.landed
                  /\ q.plant_cells = <<>>
                  /\ occupied_coords' = occupied_coords
                  /\ born' = <<>>
             ELSE /\ q.landed
                  /\ q.coord = p.coord
                  /\ p.coord \in occupied_coords'
                  /\ seeded(p, q)
    /\ pc # "idle" /\ pc' # "idle" =>
          \A k \in DOMAIN plants :
              plants[k].landed => plants'[k].landed /\ plants'[k].coord = plants[k].coord

SeededAlways(p, q) == OneSeedAt(q.plant_cells, p.coord)

SeededIfFree(p, q) ==
    IF p.coord \in occupied_coords THEN q.plant_cells = <<>>
    ELSE OneSeedAt(q.plant_cells, p.coord)

\* C6, as stated: an unlanded plant on air moves down exactly one row per tick
\* and does nothing else; on the first tick its position is ground it lands,
\* with exactly one Seed at that coordinate, which is added to occupied; it
\* never moves after landing.
C6_FallsThenLandsWithSeed == [][FallsThenLands(SeededAlways)]_vars

\* C6, amended: the same, but the landing creates the Seed only if the
\* coordinate is not occupied; on an occupied coordinate the plant lands
\* without a cell.
C6_FallsThenLandsSeedIfFree == [][FallsThenLands(SeededIfFree)]_vars

\* A plant has fallen and then landed on a coordinate another plant's cell
\* holds, after the first plant landed with its Seed.
C6_LandedOnOccupied ==
    /\ pc = "returned"
    /\ plants[i].landed
    /\ plants[i].plant_cells = <<>>
    /\ plants[i].age < plant_lifespan
    /\ plants[i].coord[2] > initial_plant_coord_y
    /\ \E r \in CellRefs : r[1] # i /\ CellAt(r).coords = plants[i].coord
    /\ OneSeedAt(SubSeq(plants[1].plant_cells, 1, 1), plants[1].coord)

\* C7: the update of a Flower that has both seed progresses at
\* seed_creation_cost completes the seed: the Flower leaves its plant, its
\* coordinate is freed, and exactly one new unlanded plant, with no cells and a
\* mutation of the parent's genome, is returned and then appended to the plant
\* list.  No Flower with its seed completed stays in a map, so none yields a
\* second plant, and nothing but a Flower yields a plant.
C7_CompletedFlowerYieldsOnePlant ==
    [][/\ StepsCell =>
            /\ \A k \in DOMAIN plants'[i].plant_cells :
                  LET cell == plants'[i].plant_cells[k]
                  IN cell.cell_type = "FLOWER" =>
                        \/ cell.seed_progress_water < seed_creation_cost
                        \/ cell.seed_progress_energy < seed_creation_cost
            /\ born' # born =>
                  /\ SelfBefore.cell_type = "FLOWER"
                  /\ SelfRemoved
                  /\ Head(todo) \notin occupied_coords'
                  /\ Len(born') = Len(born) + 1
                  /\ SubSeq(born', 1, Len(born)) = born
                  /\ LET new == born'[Len(born')]
                     IN /\ ~new.landed
                        /\ new.plant_cells = <<>>
                        /\ new.age = 0
                        /\ new.coord = Head(todo)
                        /\ new.genome \in GetMutation(plants[i].genome)
       /\ pc = "loop" /\ pc' = "idle" =>
            \A k \in DOMAIN new_plants : \A n \in DOMAIN new_plants[k] :
                Cardinality({m \in DOMAIN plants' : plants'[m] = new_plants[k][n]}) = 1
      ]_vars

\* A Flower has just completed its seed: the plant it yields is returned, with
\* a changed genome, and the Flower's coordinate is free.
C7_SeedCompleted ==
    /\ pc \in {"cells", "returned"}
    /\ born # <<>>
    /\ born[1].genome # plants[i].genome
    /\ born[1].coord \notin occupied_coords

\* The plants the update() has been handed so far, counted.
RECURSIVE CountReturned(_, _)
CountReturned(lists, k) ==
    IF k = 0 THEN 0 ELSE Len(lists[k]) + CountReturned(lists, k - 1)

\* C8: while update() goes through the plants the list keeps its length and
\* only the plant being updated changes; each plant.update's result is kept
\* once; when every plant has been updated the returned plants are appended,
\* each once, in the order returned, behind the plants that were there; they
\* have not been updated in this tick, and every plant that was in the list
\* has been.
C8_NewPlantsAppendedAfterThePass ==
    [][/\ pc' # "idle" =>
            /\ Len(plants') = Len(plants)
            /\ \A k \in DOMAIN plants : k # i => plants'[k] = plants[k]
       /\ pc = "returned" => new_plants' = Append(new_plants, born)
       /\ EntersPlant => born' = <<>>
       /\ pc = "loop" /\ pc' = "idle" =>
            LET total == CountReturned(new_plants, Len(new_plants))
                old == Len(plants') - total
            IN /\ Len(new_plants) = Len(plants)
               /\ old >= 0
               /\ \A k \in 1..old : \E m \in DOMAIN plants : plants'[k] = plants[m]
               /\ \A k \in DOMAIN plants : plants[k].age >= 1
               /\ \A k \in DOMAIN new_plants : \A n \in DOMAIN new_plants[k] :
                     LET new == plants'[old + CountReturned(new_plants, k - 1) + n]
                     IN new = new_plants[k][n] /\ new.age = 0 /\ ~new.landed
      ]_vars

\* update() has just appended a plant returned by a plant that is not the
\* last of the list.
C8_AppendedBehindOthers ==
    /\ pc = "idle"
    /\ Len(new_plants) >= 2
    /\ new_plants[1] # <<>>
    /\ plants[Len(plants)] = new_plants[1][Len(new_plants[1])]
    /\ plants[Len(plants)].age = 0

\* The plants of the list that the closing step of update() drops.
Dropped == {k \in DOMAIN plants : plants[k].age > plant_lifespan + dead_cell_lifespan}

\* The closing step of update() keeps, in order, exactly the plants whose age
\* does not exceed plant_lifespan + dead_cell_lifespan, so that a plant leaves
\* in the update() that takes its age past the limit and no older plant stays;
\* and released(k) holds of every plant k it drops.
ReapsAtTheLimit(released(_)) ==
    pc = "loop" /\ pc' = "idle" =>
        LET old == Len(plants') - CountReturned(new_plants, Len(new_plants))
        IN /\ SubSeq(plants', 1, old) =
                 SelectSeq(plants, LAMBDA plant :
                                       plant.age <= plant_lifespan + dead_cell_lifespan)
           /\ \A k \in DOMAIN plants : plants[k].age <= plant_lifespan + dead_cell_lifespan + 1
           /\ \A k \in Dropped : released(k)

NoCoordLeft(k) == CellCoords(plants[k]) \cap occupied_coords' = {}

NoCoordLeftUnheld(k) ==
    \A c \in CellCoords(plants[k]) \cap occupied_coords' :
        \E m \in DOMAIN plants' : c \in CellCoords(plants'[m])

\* C9, as stated: a plant leaves the list in the very update() in which its
\* age first exceeds plant_lifespan + dead_cell_lifespan, never earlier, and
\* after that update no coordinate of its cells is in occupied.
C9_ReapedAtTheLimitCoordsFree == [][ReapsAtTheLimit(NoCoordLeft)]_vars

\* C9, amended: the same, but a coordinate of the reaped plant may be in
\* occupied after the update if a plant that stays holds a cell there (grown
\* after the release, in the same update).
C9_ReapedAtTheLimitNoOrphan == [][ReapsAtTheLimit(NoCoordLeftUnheld)]_vars

\* update() has just dropped a plant that still had cells, and released their
\* coordinates.
C9_ReapedWithCells ==
    /\ pc = "loop"
    /\ i > Len(plants)
    /\ \E k \in Dropped :
          /\ Len(plants[k].plant_cells) > 1
          /\ CellCoords(plants[k]) \cap occupied_coords = {}

\* C10, as stated: an unlanded plant has no cells, and a landed plant has
\* exactly one Seed, at its landing coordinate.
C10_LandedHasItsSeed ==
    pc = "idle" =>
        \A p \in DOMAIN plants :
            IF ~plants[p].landed THEN plants[p].plant_cells = <<>>
            ELSE /\ Cardinality({k \in DOMAIN plants[p].plant_cells :
                                    plants[p].plant_cells[k].cell_type = "SEED"}) = 1
                 /\ plants[p].plant_cells[1].cell_type = "SEED"
                 /\ plants[p].plant_cells[1].coords = plants[p].coord

\* C10, amended: an unlanded plant has no cells; a landed plant has no cells
\* at all (it landed on an occupied coordinate, or its cells have died and been
\* removed) or exactly one Seed, at its landing coordinate.
C10_LandedHasItsSeedOrNothing ==
    pc = "idle" =>
        \A p \in DOMAIN plants :
            IF ~plants[p].landed THEN plants[p].plant_cells = <<>>
            ELSE \/ plants[p].plant_cells = <<>>
                 \/ /\ Cardinality({k \in DOMAIN plants[p].plant_cells :
                                       plants[p].plant_cells[k].cell_type = "SEED"}) = 1
                    /\ plants[p].plant_cells[1].cell_type = "SEED"
                    /\ plants[p].plant_cells[1].coords = plants[p].coord

\* A plant whose Seed and other cells have died and been removed, beside an
\* unlanded plant and a landed plant that has grown from its Seed.
C10_SeedGone ==
    /\ pc = "idle"
    /\ \E p \in DOMAIN plants : plants[p].landed /\ plants[p].plant_cells = <<>> /\ died = {}
    /\ cell_lifespan = ShortLifespan
    /\ \E p \in DOMAIN plants : plants[p].landed /\ Len(plants[p].plant_cells) > 1

\* ---------------------------------------------------- the seed's genes
\* The inputs a Seed's rules are tested with: cell_distance 0 and any water
\* and energy between nothing and the capacity, those of the Seeds in the
\* maps among them.
SeedResources ==
    {0, default_creation_cost, seed_creation_cost, cell_resource_capacity}
        \cup {CellAt(r).water : r \in {q \in CellRefs : CellAt(q).cell_type = "SEED"}}
        \cup {CellAt(r).energy : r \in {q \in CellRefs : CellAt(q).cell_type = "SEED"}}

Pinned == {<<"STEM", 3>>, <<"ROOT", 7>>}

\* C11: for a genome as init_random() made it, the test of a Seed's rule has
\* one possible result whatever the draw: true for Stem straight up and for
\* Root straight down (directions 2 and 6 counted from 0), false for every
\* other target type and direction.
C11_FreshSeedRulesAreCertain ==
    \A p \in DOMAIN plants :
        plants[p].genome = Genome_init_random =>
            \A tgt \in DOMAIN plants[p].genome["SEED"], d \in 1..8 :
                \A water \in SeedResources, energy \in SeedResources :
                    TestExpression(plants[p].genome["SEED"][tgt][d], 0, water, energy)
                        = IF <<tgt, d>> \in Pinned THEN {TRUE} ELSE {FALSE}

\* A plant with the genome of init_random() whose Seed has sampled its growth:
\* it has its Stem above and its Root below, and nothing else.
C11_FreshSeedHasGrown ==
    \E p \in DOMAIN plants :
        /\ plants[p].genome = Genome_init_random
        /\ Len(plants[p].plant_cells) = 3
        /\ \E c \in CellCoords(plants[p]) :
              LET cells == plants[p].plant_cells
                  up == KeyIndex(cells, CoordAdd(c, <<0, -1>>))
                  down == KeyIndex(cells, CoordAdd(c, <<0, 1>>))
              IN /\ cells[KeyIndex(cells, c)].cell_type = "SEED"
                 /\ up # 0 /\ cells[up].cell_type = "STEM" /\ cells[up].parent = c
                 /\ down # 0 /\ cells[down].cell_type = "ROOT" /\ cells[down].parent = c

\* ------------------------------------------------------------ germination
Above(c) == CoordAdd(c, <<0, -1>>)
Below(c) == CoordAdd(c, <<0, 1>>)

InGrid(c) == c[1] \in 0..(grid_size_x - 1) /\ c[2] \in 0..(grid_size_y - 1)

\* The step is the first growth sampling of a live landed Seed whose
\* coordinates above and below are in the grid, unoccupied, and air above and
\* ground below.
FirstSampling ==
    /\ StepsCell
    /\ SelfBefore.cell_type = "SEED"
    /\ SelfBefore.is_alive
    /\ SelfBefore.age = 0
    /\ ground_matrix(SelfBefore.coords)
    /\ InGrid(Above(Head(todo))) /\ InGrid(Below(Head(todo)))
    /\ Above(Head(todo)) \notin occupied_coords
    /\ Below(Head(todo)) \notin occupied_coords
    /\ ~ground_matrix(Above(Head(todo)))
    /\ ground_matrix(Below(Head(todo)))

\* The step has given the plant exactly two new cells: a Stem above the Seed
\* and a Root below it, both children of the Seed.
GrewStemAndRoot ==
    LET c == Head(todo)
        cells == plants'[i].plant_cells
        up == KeyIndex(cells, Above(c))
        down == KeyIndex(cells, Below(c))
    IN /\ Len(cells) = Len(plants[i].plant_cells) + 2
       /\ up # 0 /\ cells[up].cell_type = "STEM" /\ cells[up].parent = c
       /\ down # 0 /\ cells[down].cell_type = "ROOT" /\ cells[down].parent = c

\* C12, as stated: every germinated Seed, of an initial plant or of a plant a
\* Flower spawned, grows exactly one Stem straight above and one Root straight
\* below on its first growth sampling after landing, when those two
\* coordinates are in the grid, unoccupied and of the right terrain.
C12_EverySeedGrowsStemAndRoot ==
    [][FirstSampling => GrewStemAndRoot]_vars

\* The Seed rules of the plant are those init_random() made.
SeedRulesAsPinned(plant) == plant.genome["SEED"] = Genome_init_random["SEED"]

\* C12, amended: the same for every Seed whose plant's genome has the Seed
\* rules as init_random() made them, which no mutation has changed.
C12_UnmutatedSeedGrowsStemAndRoot ==
    [][FirstSampling /\ SeedRulesAsPinned(plants[i]) => GrewStemAndRoot]_vars

\* A plant a Flower spawned, its Seed rules untouched by the mutation, has
\* landed beside its parent and its Seed has grown its Stem and its Root.
C12_OffspringGerminated ==
    \E p \in DOMAIN plants :
        /\ p > 1
        /\ SeedRulesAsPinned(plants[p])
        /\ Len(plants[p].plant_cells) >= 3
        /\ \E c \in CellCoords(plants[p]) :
              LET cells == plants[p].plant_cells
              IN /\ cells[KeyIndex(cells, c)].cell_type = "SEED"
                 /\ KeyIndex(cells, Above(c)) # 0
                 /\ cells[KeyIndex(cells, Above(c))].cell_type = "STEM"
                 /\ KeyIndex(cells, Below(c)) # 0
                 /\ cells[KeyIndex(cells, Below(c))].cell_type = "ROOT"

\* ----------------------------------------------------------------- create
\* The x positions of the plants create() returned.
CreatedX == [k \in DOMAIN call.result.plants |-> call.result.plants[k].coord[1]]

\* C13: for every grid width, create() yields exactly the fixed number N of
\* plants, all unlanded with empty cell maps, at pairwise distinct x positions
\* inside the grid, evenly spaced, on one row, and an empty occupied set.
C13_CreateYieldsNPlants ==
    call.op = "create" =>
        /\ ~call.result.error
        /\ Len(call.result.plants) = call.n
        /\ call.result.occupied_coords = {}
        /\ \A k \in DOMAIN call.result.plants :
              /\ ~call.result.plants[k].landed
              /\ call.result.plants[k].plant_cells = <<>>
              /\ CreatedX[k] \in 0..(call.width - 1)
              /\ call.result.plants[k].coord[2] = call.result.plants[1].coord[2]
        /\ \A k, l \in DOMAIN call.result.plants : k # l => CreatedX[k] # CreatedX[l]
        /\ \A k \in 2..Len(call.result.plants) :
              CreatedX[k] - CreatedX[k - 1] = CreatedX[2] - CreatedX[1]

\* ------------------------------------------------------------------ Coord
\* C15: a + b is a new Coord with the fields (a.x + b.x, a.y + b.y), and a and
\* b are as they were; a + Coord(0, 0) equals a; a == a; a == b is b == a, and
\* holds exactly when both x and y agree; equal Coords have equal hashes.
C15_CoordAlgebra ==
    /\ call.op = "add" =>
          /\ call.result.x = call.a.x + call.b.x
          /\ call.result.y = call.a.y + call.b.y
          /\ ~Coord_is(call.result, call.a) /\ ~Coord_is(call.result, call.b)
          /\ call.a_after = call.a /\ call.b_after = call.b
          /\ (call.b.x = 0 /\ call.b.y = 0) => xy(call.result) = xy(call.a)
    /\ call.op = "eq" =>
          /\ call.eq_aa
          /\ call.eq_ab = call.eq_ba
          /\ call.eq_ab = (call.a.x = call.b.x /\ call.a.y = call.b.y)
          /\ call.eq_ab => call.hash_a = call.hash_b

\* Two Coord objects with the same fields have been compared.
C15_EqualDistinctObjects ==
    /\ call.op = "eq"
    /\ ~Coord_is(call.a, call.b)
    /\ call.eq_ab
    /\ call.hash_a = call.hash_b

\* ------------------------------------------------------- growth sampling
\* The cell of this step after it, when it is still in the map.
SelfAfter == plants'[i].plant_cells[KeyIndex(plants'[i].plant_cells, Head(todo))]

\* The records of grown cells this step has applied: the cells of the map
\* after the step that are children of the cell and were not in the map, or
\* were other cells, before.
SpawnedNow ==
    {k \in DOMAIN plants'[i].plant_cells :
        /\ plants'[i].plant_cells[k].parent = Head(todo)
        /\ plants'[i].plant_cells[k].age = 0
        /\ plants'[i].plant_cells[k].cell_type # "SEED"
        /\ plants'[i].plant_cells[k] \notin Range(plants[i].plant_cells)}

\* C16: every spawn is paid from what the cell has at that moment, so the
\* growth sampling of a cell whose water and energy, and whose parent's, are
\* not negative leaves the cell's water and energy not negative.
C16_GrowthNeverOverdraws ==
    [][StepsCell /\ ~SelfRemoved
         /\ SelfBefore.water >= 0 /\ SelfBefore.energy >= 0
         /\ ParentOf(plants[i].plant_cells, SelfBefore).water >= 0
         /\ ParentOf(plants[i].plant_cells, SelfBefore).energy >= 0
       => SelfAfter.water >= 0 /\ SelfAfter.energy >= 0]_vars

\* The records of the last cell update that carry a grown cell.
GrowthRecords ==
    IF cell_updates = None THEN {}
    ELSE {n \in DOMAIN cell_updates :
             /\ cell_updates[n].update_with # None
             /\ cell_updates[n].update_with[1].cell_type # "SEED"}

\* The two ways a target outside the grid shows: the read of the ground
\* matrix raises IndexError, or a record is returned for it.
NoIndexError == pc # "crashed"

NoRecordOutside == \A n \in GrowthRecords : InGrid(cell_updates[n].coords)

\* C17: growth sampling creates no cell outside the grid and raises no error:
\* every record of a grown cell names a coordinate with 0 <= x < width and
\* 0 <= y < height, and no cell update ends in IndexError.
C17_GrowthStaysInGrid == NoIndexError /\ NoRecordOutside

\* C18: the records one growth sampling returns name pairwise different
\* coordinates, so that one child is created and one cost paid per coordinate.
C18_OneRecordPerCoordinate ==
    \A m, n \in GrowthRecords :
        m # n => cell_updates[m].coords # cell_updates[n].coords

\* ------------------------------------------------------ death by the parent
ParentBefore == ParentOf(plants[i].plant_cells, SelfBefore)

\* The step updates a live cell other than a Seed whose parent is dead.
TickedUnderDeadParent ==
    /\ StepsCell
    /\ SelfBefore.cell_type # "SEED"
    /\ SelfBefore.is_alive
    /\ ~ParentBefore.is_alive

\* The cell is dead with its parent's age; it has left the map in this step
\* only if that age is the removal threshold already, or as a Flower whose
\* seed was complete.
DiedWithParentsAge ==
    IF SelfRemoved
    THEN ParentBefore.age >= dead_cell_lifespan \/ SelfBefore.cell_type = "FLOWER"
    ELSE ~SelfAfter.is_alive /\ SelfAfter.age = ParentBefore.age

\* Between update() calls: a cell other than a Seed that is alive has its
\* parent in the map, alive; one that is dead beside its dead parent has the
\* parent's age, so that both reach dead_cell_lifespan in one tick.
DeathHasReachedAll ==
    pc = "idle" =>
        \A r \in CellRefs :
            LET cell == CellAt(r)
                cells == plants[r[1]].plant_cells
                pk == KeyIndex(cells, cell.parent)
            IN cell.cell_type # "SEED" =>
                  /\ cell.is_alive => pk # 0 /\ cells[pk].is_alive
                  /\ ~cell.is_alive /\ pk # 0 => ~cells[pk].is_alive /\ cell.age = cells[pk].age

\* In the simulation, where the cells are ticked in the order of the map: a
\* live cell other than a Seed that is ticked while its parent is dead dies in
\* that tick with the age of its parent; the death reaches every descendant,
\* and no live cell is left with a dead parent.
DeathPropagatesInMapOrder ==
    [](DeathHasReachedAll) /\ [][TickedUnderDeadParent => DiedWithParentsAge]_vars

\* A death has gone through two generations: between update() calls a dead
\* cell at distance 2 lies beside its dead parent and the dead Seed.
WholePlantDead ==
    /\ pc = "idle"
    /\ \E r \in CellRefs :
          LET cell == CellAt(r)
              cells == plants[r[1]].plant_cells
          IN /\ cell.cell_distance = 2
             /\ ~cell.is_alive
             /\ KeyIndex(cells, cell.parent) # 0
             /\ ~cells[KeyIndex(cells, cell.parent)].is_alive
             /\ \A k \in DOMAIN cells : ~cells[k].is_alive

\* For a plant ticked on its own: the tick after which the cell at c had left
\* the map, 0 if it never left.
RemovedAt(c) ==
    IF \E t \in DOMAIN call.history : KeyIndex(call.history[t], c) = 0
    THEN CHOOSE t \in DOMAIN call.history :
            /\ KeyIndex(call.history[t], c) = 0
            /\ \A u \in 1..(t - 1) : KeyIndex(call.history[u], c) # 0
    ELSE 0

\* The tick in which the Seed died, 0 if it did not.
SeedDiedAt ==
    IF \E t \in DOMAIN call.history : \A k \in DOMAIN call.history[t] :
            call.history[t][k].cell_type = "SEED" => ~call.history[t][k].is_alive
    THEN CHOOSE t \in DOMAIN call.history :
            /\ \A k \in DOMAIN call.history[t] :
                  call.history[t][k].cell_type = "SEED" => ~call.history[t][k].is_alive
            /\ \A u \in 1..(t - 1) : \E k \in DOMAIN call.history[u] :
                  call.history[u][k].cell_type = "SEED" /\ call.history[u][k].is_alive
    ELSE 0

\* After tick t no live cell has a parent that is dead or gone.
NoLiveChildOfDead(t) ==
    \A k \in DOMAIN call.history[t] :
        LET cell == call.history[t][k]
            pk == KeyIndex(call.history[t], cell.parent)
        IN cell.cell_type # "SEED" /\ cell.is_alive =>
              pk # 0 /\ call.history[t][pk].is_alive

\* Parent and child leave the map in one tick, and from the end of the tick
\* after the Seed's death on no live cell has a dead parent.
SameRemovalTick ==
    /\ RemovedAt(FamilyCoords[2]) = RemovedAt(FamilyCoords[1])
    /\ RemovedAt(FamilyCoords[3]) = RemovedAt(FamilyCoords[2])
    /\ SeedDiedAt # 0 =>
          \A t \in DOMAIN call.history : t >= SeedDiedAt + 1 => NoLiveChildOfDead(t)

\* C19, as stated: a live cell ticked while its parent is dead dies in that
\* tick with its parent's death age, so that, whatever the order in which the
\* cells are ticked, parent and child reach their removal threshold in the
\* same tick, and no live cell has a dead parent at the end of the tick after
\* the death.
C19_SameRemovalTickInAnyOrder ==
    call.op = "ticks" => SameRemovalTick

\* Every parent is ticked before its children.
ParentFirst(order) ==
    \A m, n \in 1..3 :
        (order[m] = FamilyCoords[1] /\ order[n] = FamilyCoords[2])
        \/ (order[m] = FamilyCoords[2] /\ order[n] = FamilyCoords[3]) => m < n

\* C19, amended: the same when every parent is ticked before its children,
\* which is the order of the cell map.
C19_SameRemovalTickParentFirst ==
    call.op = "ticks" /\ ParentFirst(call.order) => SameRemovalTick

\* Ticked parent first, the Seed has died and the three cells have been
\* removed, in one tick.
C19_FamilyRemovedTogether ==
    /\ call.op = "ticks"
    /\ ParentFirst(call.order)
    /\ SeedDiedAt # 0
    /\ RemovedAt(FamilyCoords[1]) # 0
    /\ RemovedAt(FamilyCoords[3]) = RemovedAt(FamilyCoords[1])

\* ---------------------------------------------------------------- dead cells
\* The step updates a cell that is dead, or that dies at the start of this
\* update because its parent is dead.
TickedDead == StepsCell /\ (~SelfBefore.is_alive \/ TickedUnderDeadParent)

\* C20: a dead cell is inert: its update returns nothing or its own removal
\* record alone, starts no new plant, and leaves the cell's water, energy and
\* seed progress, a Flower's included, as they were.
C20_DeadCellIsInert ==
    [][TickedDead =>
        /\ \/ cell_updates' = None
           \/ /\ Len(cell_updates') = 1
              /\ cell_updates'[1].update_with = None
              /\ cell_updates'[1].coords = Head(todo)
        /\ born' = born
        /\ ~SelfRemoved =>
              /\ SelfAfter.water = SelfBefore.water
              /\ SelfAfter.energy = SelfBefore.energy
              /\ SelfAfter.seed_progress_water = SelfBefore.seed_progress_water
              /\ SelfAfter.seed_progress_energy = SelfBefore.seed_progress_energy
    ]_vars

\* C21: a live cell is dead after its update only if it is a Seed whose age has
\* reached the lifespan, or a cell of another class whose parent is dead; in
\* every other update it stays alive, whatever its water and energy, negative
\* values included.
C21_DiesOnlyByLifespanOrDeadParent ==
    (call.op = "update" /\ call.self.is_alive /\ ~call.result.self.is_alive) =>
        IF call.self.cell_type = "SEED"
        THEN call.self.age + 1 >= cell_lifespan
        ELSE ~call.parent.is_alive

\* A live cell with negative water and negative energy, under a live parent
\* with nothing to share, has been updated and is still alive and in debt.
C21_StarvedCellLives ==
    /\ call.op = "update"
    /\ call.self.cell_type \in {"STEM", "LEAF"}
    /\ call.self.is_alive /\ call.parent.is_alive
    /\ call.self.water < 0 /\ call.self.energy < 0
    /\ call.result.self.is_alive
    /\ call.result.self.water < 0
    /\ call.result.self.age = call.self.age + 1

\* C22: in every tick a live cell's water goes down by constant_loss_water and
\* its energy by constant_loss_energy, whatever the sharing gave it.  Stated for
\* the updates where nothing is collected or grown (every coordinate is taken)
\* and the cell is no Flower: the cell ends with what it had, or with the mean
\* of the sharing, less the loss.
Shared(self, parent, amount) ==
    IF self.cell_type = "SEED" THEN amount[self] ELSE Mean(amount[parent], amount[self])

C22_ConstantLossEveryTick ==
    (/\ call.op = "update"
     /\ call.all_coords = Crowded
     /\ call.self.cell_type # "FLOWER"
     /\ call.self.is_alive
     /\ call.result.self.is_alive) =>
        LET water == [c \in {call.self, call.parent} |-> c.water]
            energy == [c \in {call.self, call.parent} |-> c.energy]
        IN /\ call.result.self.water
                 = Shared(call.self, call.parent, water) - default_loss_per_tick
           /\ call.result.self.energy
                 = Shared(call.self, call.parent, energy) - default_loss_per_tick

\* C23: the sharing of a ticked cell with its parent leaves both with the mean
\* of the two energies and the mean of the two waters: the two are equal, the
\* sum over the pair is what it was, and the cells that are neither the ticked
\* cell nor its parent keep their water and energy.
C23_SharingAverages ==
    call.op = "share" =>
        LET before == call.cells
            after == call.result
            k == call.ticked
            pk == KeyIndex(before, before[k].parent)
        IN /\ DOMAIN after = DOMAIN before
           /\ after[k].energy = after[pk].energy
           /\ after[k].water = after[pk].water
           /\ 2 * after[k].energy = before[k].energy + before[pk].energy
           /\ 2 * after[k].water = before[k].water + before[pk].water
           /\ after[k].energy + after[pk].energy = before[k].energy + before[pk].energy
           /\ after[k].water + after[pk].water = before[k].water + before[pk].water
           /\ \A j \in DOMAIN before \ {k, pk} :
                 after[j].water = before[j].water /\ after[j].energy = before[j].energy

\* A cell in debt has shared with a parent that had more, while a third cell
\* held resources of its own.
C23_SharedWithRicherParent ==
    /\ call.op = "share"
    /\ call.ticked = 3
    /\ call.cells[3].water < 0
    /\ call.cells[2].water > 0
    /\ call.cells[2].energy # call.cells[3].energy
    /\ call.result[3].water = call.result[2].water
    /\ call.result[1].water = seed_creation_cost

\* C24: a live Root gains root_water_gain * k / 8 water, k the unoccupied ground
\* coordinates among the 8 around its own coordinate; a live Stem or Leaf gains
\* stem_energy_gain * k / 8 or leaf_energy_gain * k / 8 energy, k the unoccupied
\* air coordinates around its own; a Seed and a Flower gain nothing.  The gain
\* is what the cell holds after its update beyond the mean of the sharing (for a
\* Seed, beyond what it had), the cost of the cells it grew added back.
FreeAround(c, all_coords, ground) ==
    Cardinality({d \in 1..8 :
                    LET n == CoordAdd(c, coords_for_directions[d])
                    IN InGrid(n) /\ n \notin all_coords /\ ground_matrix(n) = ground})

Gained(amount) ==
    call.result.self[amount] + default_creation_cost * Len(call.result.updates)
        - (IF call.self.cell_type = "SEED" THEN call.self[amount]
           ELSE Mean(call.parent[amount], call.self[amount]))

C24_CollectsFromOwnNeighbours ==
    (/\ call.op = "update"
     /\ call.self.is_alive
     /\ call.result.self.is_alive
     /\ ~call.result.error
     /\ ground_matrix(call.self.coords) = (call.self.cell_type \in {"SEED", "ROOT"})) =>
        LET soil == FreeAround(call.self.coords, call.all_coords, TRUE)
            air == FreeAround(call.self.coords, call.all_coords, FALSE)
        IN CASE call.self.cell_type = "ROOT" ->
                  /\ Gained("water") = (root_water_gain * soil) \div 8
                  /\ Gained("energy") = 0
             [] call.self.cell_type = "STEM" ->
                  /\ Gained("energy") = (stem_energy_gain * air) \div 8
                  /\ Gained("water") = 0
             [] call.self.cell_type = "LEAF" ->
                  /\ Gained("energy") = (leaf_energy_gain * air) \div 8
                  /\ Gained("water") = 0
             [] call.self.cell_type = "SEED" ->
                  Gained("water") = 0 /\ Gained("energy") = 0
             [] OTHER ->
                  Gained("water") <= 0 /\ Gained("energy") <= 0

\* C25: in every reachable state, mutated genomes included, the growability
\* table is respected: a Seed may grow Stem and Root, a Root only Root, a Stem
\* Stem, Leaf and Flower, a Leaf and a Flower nothing.  Every cell that is no
\* Seed is of a type its parent's type may grow, no cell has a Leaf or a Flower
\* for parent, and every genome, of a plant in the list or of one born in this
\* pass, holds for each type exactly the permitted targets, 8 directional genes
\* each.
Permitted ==
    [t \in CellTypes |->
        CASE t = "SEED" -> {"STEM", "ROOT"}
          [] t = "ROOT" -> {"ROOT"}
          [] t = "STEM" -> {"STEM", "LEAF", "FLOWER"}
          [] OTHER -> {}]

WellFormedGenome(genome) ==
    /\ DOMAIN genome = CellTypes
    /\ \A t \in CellTypes :
          /\ DOMAIN genome[t] = Permitted[t]
          /\ \A target \in Permitted[t] : DOMAIN genome[t][target] = 1..8

AllGenomes ==
    {plants[p].genome : p \in DOMAIN plants}
        \cup {born[p].genome : p \in DOMAIN born}
        \cup {Flatten(new_plants)[p].genome : p \in DOMAIN Flatten(new_plants)}

C25_GrowabilityTableRespected ==
    /\ \A r \in CellRefs :
          LET cell == CellAt(r)
              cells == plants[r[1]].plant_cells
          IN /\ cell.cell_type \in CellTypes
             /\ cell.cell_type = "SEED" <=> cell.parent = NoParent
             /\ (cell.parent # NoParent /\ KeyIndex(cells, cell.parent) # 0) =>
                    /\ cell.cell_type \in Permitted[ParentOf(cells, cell).cell_type]
                    /\ ParentOf(cells, cell).cell_type \notin {"LEAF", "FLOWER"}
    /\ \A genome \in AllGenomes : WellFormedGenome(genome)

\* A plant with a mutated genome has grown cells, beside a plant whose Stem
\* carries a Leaf or a Flower.
C25_MutatedPlantHasGrown ==
    /\ \E p \in DOMAIN plants :
          /\ plants[p].genome # Genome_init_random
          /\ Len(plants[p].plant_cells) >= 2
    /\ \E r \in CellRefs : CellAt(r).cell_type \in {"LEAF", "FLOWER"}

\* C26: between update() calls the cells of a plant form a tree rooted at its
\* Seed (within a pass the cells of a dead plant are removed one by one, the
\* Seed first).  The Seed has no
\* parent and cell_distance 0; every other cell has a parent among the plant's
\* cells, a cell_distance one above its parent's, and a coordinate that is one
\* of the 8 neighbours of its parent's coordinate; a plant with cells has one
\* Seed.
Distance(a, b) == IF a >= b THEN a - b ELSE b - a

Neighbours(a, b) == a # b /\ Distance(a[1], b[1]) <= 1 /\ Distance(a[2], b[2]) <= 1

IsTree(cells) ==
    /\ cells # <<>> => Cardinality({k \in DOMAIN cells : cells[k].cell_type = "SEED"}) = 1
    /\ \A k \in DOMAIN cells :
          LET cell == cells[k]
          IN IF cell.cell_type = "SEED"
             THEN cell.parent = NoParent /\ cell.cell_distance = 0
             ELSE /\ cell.parent # NoParent
                  /\ KeyIndex(cells, cell.parent) # 0
                  /\ cell.cell_distance = ParentOf(cells, cell).cell_distance + 1
                  /\ Neighbours(ParentOf(cells, cell).coords, cell.coords)

C26_CellsFormATree ==
    pc = "idle" => \A p \in DOMAIN plants : IsTree(plants[p].plant_cells)

\* A plant of a Seed, a Root below it and a Stem that carries a cell of its own,
\* two links away from the Seed.
C26_TreeOfDepthTwo ==
    /\ pc = "idle"
    /\ \E p \in DOMAIN plants :
          LET cells == plants[p].plant_cells
          IN /\ \E k \in DOMAIN cells : cells[k].cell_type = "ROOT"
             /\ \E k \in DOMAIN cells :
                   /\ cells[k].cell_distance = 2
                   /\ ParentOf(cells, cells[k]).cell_type = "STEM"
                   /\ ParentOf(cells, ParentOf(cells, cells[k])).cell_type = "SEED"

\* C27: in the genome init_random() gives a plant that create() makes, every
\* rule of a Root and of a Stem (Root to Root, Stem to Stem, Stem to Leaf, Stem
\* to Flower) has growth_p = base_growth_p in each of the 8 directions.
C27_NonSeedRulesInAllDirections ==
    tick = 0 =>
        \A p \in DOMAIN plants :
            \A src \in {"ROOT", "STEM"} :
                \A tgt \in DOMAIN plants[p].genome[src] :
                    \A d \in 1..8 :
                        plants[p].genome[src][tgt][d].growth_p = base_growth_p

\* C28: the mutation returns new objects and leaves its source as it was: no
\* gene and no factor array of the result is an object of the source, so that
\* a later change to one does not show in the other; a gene that was not
\* selected has the growth_p and the factors of its source, and in a selected
\* gene every scalar outside the mutation mask has the value it had.
ScalarsOf(gene) == Append(gene.factors.values, gene.growth_p)

C28_MutationLeavesSourceAlone ==
    call.op = "mutate" =>
        LET source == call.source
            result == call.result
        IN /\ call.source_after = source
           /\ DOMAIN result = DOMAIN source
           /\ \A k, j \in DOMAIN source :
                 /\ result[k].id # source[j].id
                 /\ result[k].factors.id # source[j].factors.id
                 /\ k # j => result[k].factors.id # result[j].factors.id
           /\ \A k \in DOMAIN source :
                 IF call.draws[k].selected
                 THEN \A n \in Scalars \ call.draws[k].is_mutated :
                         ScalarsOf(result[k])[n] = ScalarsOf(source[k])[n]
                 ELSE ScalarsOf(result[k]) = ScalarsOf(source[k])

\* One gene was copied and the other was mutated in its growth_p and in some
\* but not all of its factors.
C28_OneGeneMutatedOneCopied ==
    /\ call.op = "mutate"
    /\ ~call.draws[1].selected
    /\ call.draws[2].selected
    /\ (n_factors + 1) \in call.draws[2].is_mutated
    /\ \E n \in 1..n_factors : n \in call.draws[2].is_mutated
    /\ \E n \in 1..n_factors : n \notin call.draws[2].is_mutated
    /\ call.result[2].growth_p # call.source[2].growth_p
    /\ call.result[1].growth_p = call.source[1].growth_p

====
